---- MODULE Spec2Model ----
(***************************************************************************)
(* Model of src/src/main.py: the playback state machine (SpeakerThread),   *)
(* the device group (SpeakerRemote) and the device handles (SpeakerAccess) *)
(* with their unjoined per-device worker threads.                          *)
(***************************************************************************)
EXTENDS Integers, Sequences, FiniteSets, TLC

\* Program constants (main.py).
TIMEOUT == 60
POLL == 10
PLAYING == 1
STOPPED == 2
INACTIVE == 3
DAY == 86400

OFF == FALSE
ON == TRUE

\* Bounds of the model.
MaxTime == 73
MaxFine == 1
MaxSignals == 2
MaxRaceTime == 10
MaxQuietSignals == 1
MaxDevSignals == 2
MaxGroupPolls == 1
MaxEnv == 1
MaxCallbacks == 3
MaxHealPolls == 2
MaxLongPolls == 8

Devices == {"d1", "d2"}
Signals == {PLAYING, STOPPED, INACTIVE}

\* Values of SpeakerThread._state_changed and SpeakerAccess._sp.
NoTime == -1
NoSession == 0

VARIABLES
  state,          \* SpeakerThread._state (0 before the first signal)
  state_changed,  \* SpeakerThread._state_changed (NoTime for None)
  event,          \* SpeakerThread._event flag
  now,            \* datetime.utcnow(), in whole seconds
  sig,            \* the threads calling SpeakerThread.set_state, each [pc, arg, n, t]
  loop,           \* SpeakerThread.run: [pc, until, t, ver, i, want]
  lastCmd,        \* what the last evaluation of run invoked on the remote
  changedAt,      \* time at which _state was last assigned
  nchg,           \* number of assignments to _state so far
  stampOf,        \* the number of the assignment whose call wrote _state_changed
  speakers,       \* SpeakerRemote.speakers (the configured device names)
  sp,             \* SpeakerAccess._sp of each device (NoSession for None)
  authed,         \* the session objects of each device whose auth() succeeded
  power,          \* the power state of each physical device
  reach,          \* environment: "ok", "down" (I/O fails) or "hang" (I/O blocks)
  workers,        \* the threads started by set_power_state, in slots 1..Len
  budget,         \* what the scenario still allows: [sig, main, env, horizon, fine]
  cast,           \* MyController.is_active and is_playing: [active, playing]
  obs             \* what line 129 read in the latest evaluation of run: the
                  \* value of _state (s1) and the number of its assignment (n1)

smvars == <<state, state_changed, event, now, sig, loop, lastCmd, changedAt, nchg, stampOf,
            cast, obs>>
devvars == <<speakers, sp, authed, power, reach, workers>>
vars == <<state, state_changed, event, now, sig, loop, lastCmd, changedAt, nchg, stampOf,
          speakers, sp, authed, power, reach, workers, budget, cast, obs>>

\* The slots of the threads started so far.
Slots == 1..Len(workers)

IdleWorker == [pc |-> "idle", dev |-> "-", want |-> OFF, op |-> "-", ref |-> NoSession,
               got |-> {}, out |-> "-"]

\* A slot is free when its thread has finished or is parked for ever in a
\* call that never returns: such a thread takes no further step.
Free(w) == workers[w].pc \in {"idle", "done", "stuck"}

Active(w) == ~Free(w)

FreeSlots == {w \in Slots : Free(w)}

\* ---------------------------------------------------------------------------
\* SpeakerRemote: the broadcast (set_power_state, switch_on, switch_off).

NewWorker(d, want) == [pc |-> "sp_test", dev |-> d, want |-> want, op |-> "check",
                       ref |-> NoSession, got |-> {}, out |-> "-"]

\* Variant of line 105 that joins its threads: the next thread is started
\* only when no thread is still in a call that never returns.
StartReturnsJoined == \A w \in Slots : workers[w].pc # "stuck"

\* Line 105: start() returns as soon as the new thread runs, whatever the
\* threads started earlier do; there is no limit on the threads in flight.
StartReturns == TRUE

\* The slot the next thread takes: the first free one, or a new one.
NextSlot ==
  IF FreeSlots # {}
    THEN CHOOSE w \in FreeSlots : \A v \in FreeSlots : w <= v
    ELSE Len(workers) + 1

\* Variant of line 104 that stops at the first speaker without a session.
TargetsWithSession ==
  {i \in 1..Len(speakers) : \A j \in 1..i : sp[speakers[j]] # NoSession}

\* The speakers the for loop starts a thread for: all of them, in order.
Targets == 1..Len(speakers)

\* Line 105: Thread(target=speaker.set_state, args=(state,)).start() for the
\* i-th speaker.
StartFor(i, want) ==
  IF i \in Targets
    THEN [w \in 1..(IF NextSlot > Len(workers) THEN NextSlot ELSE Len(workers)) |->
            IF w = NextSlot THEN NewWorker(speakers[i], want) ELSE workers[w]]
    ELSE workers

LoopAt(pc) == [pc |-> pc, until |-> 0, t |-> 0, ver |-> 0, i |-> 0, want |-> OFF]

\* run in its timed wait (line 124), entered now.
BackInWait == [LoopAt("wait") EXCEPT !.until = now + POLL]

\* Lines 103-104: the call enters the for loop over the speakers; with no
\* speaker configured it returns at once and run goes back to its wait.
set_power_state(want) ==
  loop' = IF Len(speakers) = 0
            THEN BackInWait
            ELSE [LoopAt("start") EXCEPT !.i = 1, !.want = want]

switch_on == set_power_state(ON)

switch_off == set_power_state(OFF)

\* ---------------------------------------------------------------------------
\* SpeakerThread.set_state. Two threads call it, with no lock: the receiver's
\* thread, which delivers the status callbacks one after the other (lines
\* 178-185), and the main thread, which calls signal_speakers() once (line
\* 225).

Callers == {"recv", "main"}

IdleCall == [pc |-> "idle", arg |-> 0, n |-> 0, t |-> 0]

\* No call of set_state (or of signal_speakers) is under way.
NoCall == \A c \in Callers : sig[c].pc = "idle"

\* Thread c calls set_state(s).
SetStateCall(c, s) ==
  /\ sig[c].pc = "idle"
  /\ budget.sig > 0
  /\ c = "main" => budget.main > 0
  /\ budget' = [budget EXCEPT !.sig = @ - 1,
                              !.main = IF c = "main" THEN @ - 1 ELSE @]
  /\ sig' = [sig EXCEPT ![c] = [pc |-> "test", arg |-> s, n |-> 0, t |-> 0]]
  /\ UNCHANGED <<state, state_changed, event, now, loop, lastCmd, changedAt, nchg, stampOf>>
  /\ UNCHANGED <<cast, obs>>
  /\ UNCHANGED devvars

\* Line 147: if self._state != state.
StateDiffers(s) == state # s

\* Line 147: the test; when it fails the call returns.
SetStateTest(c) ==
  /\ sig[c].pc = "test"
  /\ sig' = [sig EXCEPT ![c] = IF StateDiffers(sig[c].arg)
                                 THEN [@ EXCEPT !.pc = "assign"]
                                 ELSE IdleCall]
  /\ UNCHANGED <<state, state_changed, event, now, loop, lastCmd, changedAt, nchg, stampOf,
                 budget, cast, obs>>
  /\ UNCHANGED devvars

\* Line 148: self._state = state.
SetStateAssign(c) ==
  /\ sig[c].pc = "assign"
  /\ state' = sig[c].arg
  /\ changedAt' = IF state # sig[c].arg THEN now ELSE changedAt
  /\ nchg' = nchg + 1
  /\ sig' = [sig EXCEPT ![c] = [@ EXCEPT !.pc = "now", !.n = nchg + 1]]
  /\ UNCHANGED <<state_changed, event, now, loop, lastCmd, stampOf, budget, cast, obs>>
  /\ UNCHANGED devvars

\* Line 149, right-hand side: datetime.datetime.utcnow().
SetStateNow(c) ==
  /\ sig[c].pc = "now"
  /\ sig' = [sig EXCEPT ![c] = [@ EXCEPT !.pc = "stamp", !.t = now]]
  /\ UNCHANGED <<state, state_changed, event, now, loop, lastCmd, changedAt, nchg, stampOf,
                 budget, cast, obs>>
  /\ UNCHANGED devvars

\* Line 149, the store: self._state_changed = the value utcnow() returned,
\* which other threads and the clock may have overtaken.
SetStateStamp(c) ==
  /\ sig[c].pc = "stamp"
  /\ state_changed' = sig[c].t
  /\ stampOf' = sig[c].n
  /\ sig' = [sig EXCEPT ![c] = [@ EXCEPT !.pc = "wake"]]
  /\ UNCHANGED <<state, event, now, loop, lastCmd, changedAt, nchg, budget, cast, obs>>
  /\ UNCHANGED devvars

\* Variant of line 150 that leaves the flag as it was.
EventLeft == event

\* The flag after self._event.set().
EventSet == TRUE

\* Line 150: self._event.set(); the logging that follows changes nothing.
SetStateWake(c) ==
  /\ sig[c].pc = "wake"
  /\ event' = EventSet
  /\ sig' = [sig EXCEPT ![c] = IdleCall]
  /\ UNCHANGED <<state, state_changed, now, loop, lastCmd, changedAt, nchg, stampOf, budget, cast, obs>>
  /\ UNCHANGED devvars

\* ---------------------------------------------------------------------------
\* SpeakerThread.run and state_changed_seconds_ago.

\* timedelta.seconds of (t - changed): the seconds within the day, days dropped.
TimedeltaSeconds(t, changed) == (t - changed) % DAY

\* Variant of line 134 that already fires at the grace period itself.
GraceReached(secs) == secs >= TIMEOUT

\* Line 134: the comparison with the grace period.
GraceExpired(secs) == secs > TIMEOUT

\* The end of an evaluation: run calls switch_on() or switch_off() (lines 130,
\* 132, 135), or calls nothing and is back in its timed wait.
Invoke(cmd) ==
  /\ lastCmd' = cmd
  /\ CASE cmd = "on" -> switch_on
       [] cmd = "off" -> switch_off
       [] OTHER -> loop' = BackInWait
  /\ UNCHANGED workers

\* Lines 104-105: one iteration of the for loop starts the thread of the next
\* speaker; other threads run between two iterations. After the last one
\* set_power_state returns and run is back in its timed wait.
StartThread ==
  /\ loop.pc = "start"
  /\ StartReturns
  /\ workers' = StartFor(loop.i, loop.want)
  /\ loop' = IF loop.i < Len(speakers) THEN [loop EXCEPT !.i = @ + 1] ELSE BackInWait
  /\ UNCHANGED <<state, state_changed, event, now, sig, lastCmd, changedAt, nchg, stampOf,
                 budget, cast, obs>>
  /\ UNCHANGED <<speakers, sp, authed, power, reach>>

\* Line 124: wait(timeout=10) returns because the event is set.
RunWaitWoken ==
  /\ loop.pc = "wait"
  /\ event
  /\ loop' = LoopAt("is_set")
  /\ UNCHANGED <<state, state_changed, event, now, sig, lastCmd, changedAt, nchg, stampOf, budget, cast, obs>>
  /\ UNCHANGED devvars

\* Line 124: wait(timeout=10) returns because the timeout expired.
RunWaitTimeout ==
  /\ loop.pc = "wait"
  /\ ~event
  /\ now >= loop.until
  /\ loop' = LoopAt("is_set")
  /\ UNCHANGED <<state, state_changed, event, now, sig, lastCmd, changedAt, nchg, stampOf, budget, cast, obs>>
  /\ UNCHANGED devvars

\* Line 126: if self._event.is_set().
RunIsSet ==
  /\ loop.pc = "is_set"
  /\ loop' = LoopAt(IF event THEN "clear" ELSE "read1")
  /\ UNCHANGED <<state, state_changed, event, now, sig, lastCmd, changedAt, nchg, stampOf, budget, cast, obs>>
  /\ UNCHANGED devvars

\* Line 127: self._event.clear().
RunClear ==
  /\ loop.pc = "clear"
  /\ event' = FALSE
  /\ loop' = LoopAt("read1")
  /\ UNCHANGED <<state, state_changed, now, sig, lastCmd, changedAt, nchg, stampOf, budget, cast, obs>>
  /\ UNCHANGED devvars

\* Lines 129-130: the first read of _state.
RunRead1 ==
  /\ loop.pc = "read1"
  /\ obs' = [s1 |-> state, n1 |-> nchg]
  /\ IF state = PLAYING
       THEN Invoke("on")
       ELSE /\ loop' = LoopAt("read2")
            /\ UNCHANGED <<lastCmd, workers>>
  /\ UNCHANGED <<state, state_changed, event, now, sig, changedAt, nchg, stampOf, budget, cast>>
  /\ UNCHANGED <<speakers, sp, authed, power, reach>>

\* Lines 131-133: the second read of _state.
RunRead2 ==
  /\ loop.pc = "read2"
  /\ IF state = INACTIVE
       THEN Invoke("off")
       ELSE /\ loop' = [LoopAt("ago_none") EXCEPT !.ver = nchg]
            /\ UNCHANGED <<lastCmd, workers>>
  /\ UNCHANGED <<state, state_changed, event, now, sig, changedAt, nchg, stampOf, budget, cast, obs>>
  /\ UNCHANGED <<speakers, sp, authed, power, reach>>

\* Variant of line 161 that returns the grace period itself.
UnsetElapsedAsGrace == TIMEOUT

\* Line 161: what state_changed_seconds_ago returns while the timestamp is
\* None.
UnsetElapsed == TIMEOUT + 1

\* Lines 160-161: if self._state_changed is None: return TIMEOUT + 1.
RunAgoNone ==
  /\ loop.pc = "ago_none"
  /\ IF state_changed = NoTime
       THEN Invoke(IF GraceExpired(UnsetElapsed) THEN "off" ELSE "skip")
       ELSE /\ loop' = [loop EXCEPT !.pc = "ago_now"]
            /\ UNCHANGED <<lastCmd, workers>>
  /\ UNCHANGED <<state, state_changed, event, now, sig, changedAt, nchg, stampOf, budget, cast, obs>>
  /\ UNCHANGED <<speakers, sp, authed, power, reach>>

\* Line 162, left operand: datetime.datetime.utcnow().
RunAgoNow ==
  /\ loop.pc = "ago_now"
  /\ loop' = [loop EXCEPT !.pc = "ago_sub", !.t = now]
  /\ UNCHANGED <<state, state_changed, event, now, sig, lastCmd, changedAt, nchg, stampOf, budget, cast, obs>>
  /\ UNCHANGED devvars

\* Line 162, right operand and .seconds; lines 134-135.
RunAgoSub ==
  /\ loop.pc = "ago_sub"
  /\ Invoke(IF GraceExpired(TimedeltaSeconds(loop.t, state_changed))
              THEN "off" ELSE "skip")
  /\ UNCHANGED <<state, state_changed, event, now, sig, changedAt, nchg, stampOf, budget, cast, obs>>
  /\ UNCHANGED <<speakers, sp, authed, power, reach>>

\* ---------------------------------------------------------------------------
\* The clock, in whole seconds. It is followed second by second up to
\* budget.fine; after that it is followed from one deadline of the timed
\* wait to the next. While run is in its timed wait the clock does not pass
\* the deadline without the wait returning.

Tick ==
  /\ now < budget.horizon
  /\ loop.pc = "wait" => now < loop.until
  /\ \/ /\ now < budget.fine
        /\ now' = now + 1
     \/ /\ loop.pc = "wait"
        /\ loop.until <= budget.horizon
        /\ now' = loop.until
  /\ UNCHANGED <<state, state_changed, event, sig, loop, lastCmd, changedAt, nchg, stampOf, budget, cast, obs>>
  /\ UNCHANGED devvars

\* ---------------------------------------------------------------------------
\* The state machine alone: no speaker is configured.

\* The first poll interval: the main thread's call of line 225 is still to
\* come and may overlap a callback.

InitSM ==
  /\ state = 0
  /\ state_changed = NoTime
  /\ event = FALSE
  /\ now = 0
  /\ sig = [c \in Callers |-> IdleCall]
  /\ loop = [LoopAt("wait") EXCEPT !.until = POLL]
  /\ lastCmd = "none"
  /\ changedAt = NoTime
  /\ nchg = 0
  /\ stampOf = 0
  /\ cast = [active |-> FALSE, playing |-> FALSE]
  /\ obs = [s1 |-> 0, n1 |-> 0]

InitMachine ==
  /\ InitSM
  /\ speakers = << >>
  /\ sp = << >>
  /\ authed = << >>
  /\ power = << >>
  /\ reach = << >>
  /\ workers = << >>
  /\ budget = [sig |-> MaxSignals, main |-> 1, env |-> 0, horizon |-> MaxRaceTime,
               fine |-> MaxFine]

\* The steps of set_state and run that take no time.
NextUntimed ==
  \/ \E c \in Callers, s \in Signals : SetStateCall(c, s)
  \/ \E c \in Callers : SetStateTest(c)
  \/ \E c \in Callers : SetStateAssign(c)
  \/ \E c \in Callers : SetStateNow(c)
  \/ \E c \in Callers : SetStateStamp(c)
  \/ \E c \in Callers : SetStateWake(c)
  \/ RunWaitWoken
  \/ RunIsSet
  \/ RunClear
  \/ RunRead1
  \/ RunRead2
  \/ RunAgoNone
  \/ RunAgoNow
  \/ RunAgoSub

NextMachine ==
  \/ NextUntimed
  \/ RunWaitTimeout
  \/ Tick

SpecMachine == InitMachine /\ [][NextMachine]_vars

\* The grace period: the receiver's thread delivers its callbacks while the
\* main thread is still in cast.wait() (line 223), and run polls for more than
\* a minute.
InitGrace ==
  /\ InitSM
  /\ speakers = << >>
  /\ sp = << >>
  /\ authed = << >>
  /\ power = << >>
  /\ reach = << >>
  /\ workers = << >>
  /\ budget = [sig |-> MaxQuietSignals, main |-> 0, env |-> 0, horizon |-> MaxTime,
               fine |-> MaxFine]

SpecGrace == InitGrace /\ [][NextMachine]_vars

\* ---------------------------------------------------------------------------
\* SpeakerAccess: one thread per speaker and broadcast runs set_state(want).

Range(q) == {q[i] : i \in 1..Len(q)}

\* The threads that still run on device d.
Running(d, wk) == {v \in Slots : wk[v].pc \notin {"idle", "done", "stuck"} /\ wk[v].dev = d}

\* The session objects of device d still referenced: the stored one and the
\* ones held by running threads.
LiveIds(d, wk, stored) == ({stored} \cup {wk[v].ref : v \in Running(d, wk)}) \ {NoSession}

\* The identity of a newly constructed session object.
FreshId(d) ==
  LET live == LiveIds(d, workers, sp[d])
      ids == 1..(Cardinality(live) + 1)
  IN CHOOSE i \in ids : i \notin live /\ \A j \in ids : j < i => j \in live

\* What a failed socket operation of the session raises (socket.timeout,
\* ConnectionRefusedError, ...): IOError and OSError are one class.
IOErrors == {"IOError", "OSError"}

\* Line 48: except Exception.
ConnectCatches(e) == TRUE

\* Line 78: except IOError. IOError is OSError, so the socket's errors
\* (timeout, connection refused) are caught as well.
PvtCatches(e) == e \in IOErrors

\* Variant of line 63 that catches nothing.
SetStateCatchesNothing(e) == FALSE

\* Line 63: except SpeakerConnectError.
SetStateCatches(e) == e = "SpeakerConnectError"

\* Variant of line 73 that writes whatever was read.
NeedsWriteAlways(got, want) == TRUE

\* Line 73: if self.sp.check_power() != state. The value got is {v} for a
\* reported power v and {} for None.
NeedsWrite(got, want) == got # {want}

\* The thread's record once set_state has returned (out: what it did, or the
\* exception that ended the thread when none of the handlers caught it).
Done(w, out) == [IdleWorker EXCEPT !.pc = "done", !.dev = workers[w].dev, !.out = out]

\* Lines 63-69: set_state logs a caught exception and returns; any other
\* exception leaves the thread.
Leave(w, e, logged) == Done(w, IF SetStateCatches(e) THEN logged ELSE e)

\* An exception e raised inside the try of pvt_set_power_state: the handler
\* of line 78 takes it, or it goes on to set_state.
Raise(w, e, logged) ==
  IF PvtCatches(e)
    THEN [workers[w] EXCEPT !.pc = "except", !.ref = NoSession]
    ELSE Leave(w, e, logged)

\* Lines 48-49: what connect raises for an exception e of its body.
ConnectRaises(e) == IF ConnectCatches(e) THEN "SpeakerConnectError" ELSE e

\* One step of thread w on its handle: the thread's new record, the stored
\* session, the authenticated sessions and the device's power afterwards.
Step(w, rec, stored, au, pw) ==
  LET d == workers[w].dev
      wk == [workers EXCEPT ![w] = rec]
  IN /\ workers' = wk
     /\ sp' = [sp EXCEPT ![d] = stored]
     /\ authed' = [authed EXCEPT ![d] = au \cap LiveIds(d, wk, stored)]
     /\ power' = [power EXCEPT ![d] = pw]
     /\ UNCHANGED <<speakers, reach, budget>>
     /\ UNCHANGED smvars

\* Line 55: if not self._sp.
AccessSpTest(w) ==
  LET d == workers[w].dev IN
  /\ workers[w].pc = "sp_test"
  /\ Step(w, [workers[w] EXCEPT !.pc = IF sp[d] = NoSession THEN "ctor" ELSE "sp_ret"],
          sp[d], authed[d], power[d])

\* Line 46: self._sp = sp2(...). The constructor opens a local socket; it
\* can fail only while the network is down.
ConnectCtor(w) ==
  LET d == workers[w].dev IN
  /\ workers[w].pc = "ctor"
  /\ \/ Step(w, [workers[w] EXCEPT !.pc = "auth"], FreshId(d), authed[d], power[d])
     \/ /\ reach[d] = "down"
        /\ Step(w, Raise(w, ConnectRaises("OSError"), "conn_err"),
                sp[d], authed[d], power[d])

\* Line 47, self._sp: the stored session is loaded again.
ConnectAuth(w) ==
  LET d == workers[w].dev IN
  /\ workers[w].pc = "auth"
  /\ IF sp[d] = NoSession
       THEN Step(w, Raise(w, ConnectRaises("AttributeError"), "conn_err"),
                 sp[d], authed[d], power[d])
       ELSE Step(w, [workers[w] EXCEPT !.pc = "auth_io", !.ref = sp[d]],
                 sp[d], authed[d], power[d])

\* The stored session after a failed auth(): connect leaves it in place.
AfterAuthFailure(d) == sp[d]

\* Line 47, .auth(): the handshake with the device.
ConnectAuthIO(w) ==
  LET d == workers[w].dev IN
  /\ workers[w].pc = "auth_io"
  /\ \/ /\ reach[d] = "ok"
        /\ Step(w, [workers[w] EXCEPT !.pc = "sp_ret", !.ref = NoSession],
                sp[d], authed[d] \cup {workers[w].ref}, power[d])
     \/ /\ reach[d] = "down"
        /\ \E e \in IOErrors :
             Step(w, Raise(w, ConnectRaises(e), "conn_err"),
                  AfterAuthFailure(d), authed[d], power[d])

\* Line 58: return self._sp, and the attribute lookup on the value returned
\* (lines 73 and 77): None has no check_power or set_power.
AccessSpReturn(w) ==
  LET d == workers[w].dev IN
  /\ workers[w].pc = "sp_ret"
  /\ IF sp[d] = NoSession
       THEN Step(w, Raise(w, "AttributeError", "-"), sp[d], authed[d], power[d])
       ELSE Step(w, [workers[w] EXCEPT !.pc = "io", !.ref = sp[d]],
                 sp[d], authed[d], power[d])

\* The thread after check_power() returned got (line 73).
Checked(w, got) ==
  IF NeedsWrite(got, workers[w].want)
    THEN [workers[w] EXCEPT !.pc = "sp_test", !.op = "write", !.ref = NoSession, !.got = got]
    ELSE Done(w, "noop")

\* Line 73: check_power() on the session returned. An authenticated session
\* reports the device's power; one that is not gets no state from the
\* device, or an I/O error.
CheckPower(w) ==
  LET d == workers[w].dev IN
  /\ workers[w].pc = "io"
  /\ workers[w].op = "check"
  /\ \/ /\ reach[d] = "ok"
        /\ workers[w].ref \in authed[d]
        /\ Step(w, Checked(w, {power[d]}), sp[d], authed[d], power[d])
     \/ /\ reach[d] = "ok"
        /\ workers[w].ref \notin authed[d]
        /\ \/ Step(w, Checked(w, {}), sp[d], authed[d], power[d])
           \/ \E e \in IOErrors : Step(w, Raise(w, e, "-"), sp[d], authed[d], power[d])
     \/ /\ reach[d] = "down"
        /\ \E e \in IOErrors : Step(w, Raise(w, e, "-"), sp[d], authed[d], power[d])

\* Line 77: set_power(state) on the session returned. The device obeys an
\* authenticated session only.
SetPower(w) ==
  LET d == workers[w].dev IN
  /\ workers[w].pc = "io"
  /\ workers[w].op = "write"
  /\ \/ /\ reach[d] = "ok"
        /\ workers[w].ref \in authed[d]
        /\ Step(w, Done(w, "written"), sp[d], authed[d], workers[w].want)
     \/ /\ reach[d] = "ok"
        /\ workers[w].ref \notin authed[d]
        /\ \/ Step(w, Done(w, "sent"), sp[d], authed[d], power[d])
           \/ \E e \in IOErrors : Step(w, Raise(w, e, "-"), sp[d], authed[d], power[d])
     \/ /\ reach[d] = "down"
        /\ \E e \in IOErrors : Step(w, Raise(w, e, "-"), sp[d], authed[d], power[d])

\* Variant of line 79 that keeps the session.
DiscardedKept(d) == sp[d]

\* Line 79: the stored session after the handler of IOError.
Discarded(d) == NoSession

\* Lines 78-80: self._sp = None; raise SpeakerConnectError.
ExceptIOError(w) ==
  LET d == workers[w].dev IN
  /\ workers[w].pc = "except"
  /\ Step(w, Leave(w, "SpeakerConnectError", "io_err"), Discarded(d), authed[d], power[d])

\* A call to a device that hangs never returns: the thread stays in it.
Park(w) ==
  LET d == workers[w].dev IN
  /\ workers[w].pc \in {"auth_io", "io"}
  /\ reach[d] = "hang"
  /\ Step(w, [IdleWorker EXCEPT !.pc = "stuck", !.dev = d],
          sp[d], authed[d], power[d])

WorkerStep(w) ==
  \/ AccessSpTest(w)
  \/ ConnectCtor(w)
  \/ ConnectAuth(w)
  \/ ConnectAuthIO(w)
  \/ AccessSpReturn(w)
  \/ CheckPower(w)
  \/ SetPower(w)
  \/ ExceptIOError(w)
  \/ Park(w)

\* ---------------------------------------------------------------------------
\* The environment of the devices.

\* The network or the device changes; a device that hangs stays so.
EnvReach(d, r) ==
  /\ budget.env > 0
  /\ d \in Range(speakers)
  /\ reach[d] # "hang"
  /\ r # reach[d]
  /\ reach' = [reach EXCEPT ![d] = r]
  /\ budget' = [budget EXCEPT !.env = @ - 1]
  /\ UNCHANGED <<speakers, sp, authed, power, workers>>
  /\ UNCHANGED smvars

\* Somebody switches the plug by hand.
EnvPower(d) ==
  /\ budget.env > 0
  /\ d \in Range(speakers)
  /\ power' = [power EXCEPT ![d] = ~@]
  /\ budget' = [budget EXCEPT !.env = @ - 1]
  /\ UNCHANGED <<speakers, sp, authed, reach, workers>>
  /\ UNCHANGED smvars

\* ---------------------------------------------------------------------------
\* The handles after SpeakerRemote.__init__: every SpeakerAccess has tried
\* connect() once (lines 36-42).

InitDevices(S) ==
  /\ speakers = S
  /\ reach \in [Range(S) -> {"ok", "down"}]
  /\ power \in [Range(S) -> BOOLEAN]
  /\ sp \in [Range(S) -> {NoSession, 1}]
  /\ authed \in [Range(S) -> {{}, {1}}]
  /\ \A d \in Range(S) :
       /\ reach[d] = "ok" => (sp[d] = 1 /\ authed[d] = {1})
       /\ reach[d] = "down" => authed[d] = {}
  /\ workers = << >>

\* One speaker, switched off, broadcasts overlapping on its handle. The signals are the
\* receiver's callbacks; the main thread is still in cast.wait() (line 223).
InitHandle ==
  /\ InitSM
  /\ InitDevices(<<"d1">>)
  /\ power["d1"] = OFF
  /\ budget = [sig |-> MaxDevSignals, main |-> 0, env |-> MaxEnv, horizon |-> 0, fine |-> 0]

\* Two speakers that are switched on, before the receiver has delivered any
\* status (main is still looking for the receiver, lines 201-213): run polls
\* every 10 seconds. d1 is reachable and stays so; d2 gets lost and comes back.
InitGroup ==
  /\ InitSM
  /\ InitDevices(<<"d1", "d2">>)
  /\ power = [d \in {"d1", "d2"} |-> ON]
  /\ reach["d1"] = "ok"
  /\ budget = [sig |-> 0, main |-> 0, env |-> MaxEnv, horizon |-> MaxGroupPolls * POLL, fine |-> 0]

\* The devices and their threads within one poll interval: the clock stands
\* still (budget.horizon = 0), so the timed wait returns on signals only.
Next ==
  \/ NextUntimed
  \/ StartThread
  \/ \E w \in Slots : WorkerStep(w)
  \/ \E d \in Devices, r \in {"ok", "down", "hang"} : EnvReach(d, r)
  \/ \E d \in Devices : EnvPower(d)

SpecHandle == InitHandle /\ [][Next]_vars

\* The polls of run while no signal arrives, with the devices and threads (the
\* failures are those of d2).
NextPolling ==
  \/ RunWaitTimeout
  \/ RunIsSet
  \/ RunRead1
  \/ RunRead2
  \/ RunAgoNone
  \/ StartThread
  \/ Tick
  \/ \E w \in Slots : WorkerStep(w)
  \/ \E r \in {"ok", "down", "hang"} : EnvReach("d2", r)
  \/ \E d \in Devices : EnvPower(d)

SpecGroup == InitGroup /\ [][NextPolling]_vars

\* Two speakers of which d2 is lost for good: it refuses every connection and
\* every call, or accepts calls and never answers. d1 was reachable when its
\* SpeakerAccess was constructed and stays so; the handle of d2 holds whatever
\* an earlier connect() or call left in it.
InitLost ==
  /\ InitSM
  /\ speakers = <<"d1", "d2">>
  /\ reach \in [{"d1", "d2"} -> {"ok", "down", "hang"}]
  /\ reach["d1"] = "ok"
  /\ reach["d2"] # "ok"
  /\ power \in [{"d1", "d2"} -> BOOLEAN]
  /\ sp \in [{"d1", "d2"} -> {NoSession, 1}]
  /\ authed \in [{"d1", "d2"} -> {{}, {1}}]
  /\ sp["d1"] = 1
  /\ authed["d1"] = {1}
  /\ authed["d2"] \subseteq {sp["d2"]}
  /\ workers = << >>
  /\ budget = [sig |-> 0, main |-> 0, env |-> 0, horizon |-> MaxGroupPolls * POLL, fine |-> 0]

\* The polls of run and the threads they start; nothing changes the devices
\* from outside.
NextLost ==
  \/ RunWaitTimeout
  \/ RunIsSet
  \/ RunRead1
  \/ RunRead2
  \/ RunAgoNone
  \/ StartThread
  \/ Tick
  \/ \E w \in Slots : WorkerStep(w)

\* A thread that can take a step is scheduled sooner or later (the
\* interpreter switches between runnable threads); every thread ends or parks
\* after finitely many steps.
SpecLost == InitLost /\ [][NextLost]_vars /\ WF_vars(\E w \in Slots : WorkerStep(w))

\* ---------------------------------------------------------------------------
\* MyController: the receiver's status callbacks.

\* The receiver's status changes: the session becomes active or not, the
\* media starts or stops playing.
CastStatus(a, p) ==
  /\ cast # [active |-> a, playing |-> p]
  /\ cast' = [active |-> a, playing |-> p]
  /\ UNCHANGED <<state, state_changed, event, now, sig, loop, lastCmd, changedAt, nchg, stampOf,
                 budget, obs>>
  /\ UNCHANGED devvars

\* Variant of lines 171-176 that tests is_playing first.
DerivedPlayingFirst(a, p) ==
  IF p THEN PLAYING ELSE IF ~a THEN INACTIVE ELSE STOPPED

\* Lines 171-176: the signal for is_active = a and is_playing = p.
DerivedSignal(a, p) ==
  IF ~a THEN INACTIVE ELSE IF p THEN PLAYING ELSE STOPPED

\* Lines 170-176 in a callback: signal_inactive, signal_playing or
\* signal_stopped, each of which calls set_state once (lines 137-144). The
\* callbacks run on the receiver's thread, the one that changes the status,
\* so both tests see the same status.
signal_speakers == SetStateCall("recv", DerivedSignal(cast.active, cast.playing))

\* Lines 178-185: the three callbacks.
new_media_status == signal_speakers

new_cast_status == signal_speakers

new_connection_status == signal_speakers

\* Lines 225 and 171 on the main thread: signal_speakers() tests is_active and,
\* if the session is not active, calls signal_inactive().
MainIsActive ==
  /\ sig["main"].pc = "idle"
  /\ budget.sig > 0
  /\ budget.main > 0
  /\ budget' = [budget EXCEPT !.sig = @ - 1, !.main = @ - 1]
  /\ sig' = [sig EXCEPT !["main"] =
               IF ~cast.active
                 THEN [pc |-> "test", arg |-> INACTIVE, n |-> 0, t |-> 0]
                 ELSE [pc |-> "is_playing", arg |-> 0, n |-> 0, t |-> 0]]
  /\ UNCHANGED <<state, state_changed, event, now, loop, lastCmd, changedAt, nchg, stampOf,
                 cast, obs>>
  /\ UNCHANGED devvars

\* Lines 173-176 on the main thread: the test of is_playing, made after the
\* receiver's thread may have changed the status, and signal_playing() or
\* signal_stopped().
MainIsPlaying ==
  /\ sig["main"].pc = "is_playing"
  /\ sig' = [sig EXCEPT !["main"] =
               [pc |-> "test", arg |-> IF cast.playing THEN PLAYING ELSE STOPPED, n |-> 0, t |-> 0]]
  /\ UNCHANGED <<state, state_changed, event, now, loop, lastCmd, changedAt, nchg, stampOf,
                 budget, cast, obs>>
  /\ UNCHANGED devvars

\* The adapter with the state machine, no speaker configured; the clock
\* stands still.
InitAdapter ==
  /\ InitSM
  /\ speakers = << >>
  /\ sp = << >>
  /\ authed = << >>
  /\ power = << >>
  /\ reach = << >>
  /\ workers = << >>
  /\ budget = [sig |-> MaxCallbacks, main |-> 1, env |-> 0, horizon |-> 0, fine |-> 0]

NextAdapter ==
  \/ \E a, p \in BOOLEAN : CastStatus(a, p)
  \/ new_media_status
  \/ new_cast_status
  \/ new_connection_status
  \/ MainIsActive
  \/ MainIsPlaying
  \/ \E c \in Callers : SetStateTest(c)
  \/ \E c \in Callers : SetStateAssign(c)
  \/ \E c \in Callers : SetStateNow(c)
  \/ \E c \in Callers : SetStateStamp(c)
  \/ \E c \in Callers : SetStateWake(c)
  \/ RunWaitWoken
  \/ RunIsSet
  \/ RunClear
  \/ RunRead1
  \/ RunRead2
  \/ RunAgoNone
  \/ RunAgoNow
  \/ RunAgoSub

SpecAdapter == InitAdapter /\ [][NextAdapter]_vars

\* ---------------------------------------------------------------------------
\* The keep-alive: the state machine some time after the signal that made the
\* state Playing or Inactive, with no further signal. d1 is reachable from now
\* on, with whatever its handle holds from the time before (no session after
\* an I/O error, a session from a connect() that succeeded, or one from a
\* connect() whose auth() failed); d2 is lost as in InitLost. The threads of
\* earlier broadcasts have ended.
InitHeal ==
  /\ state \in {PLAYING, INACTIVE}
  /\ state_changed = 0
  /\ changedAt = 0
  /\ nchg = 1
  /\ stampOf = 1
  /\ event = FALSE
  /\ now = 0
  /\ sig = [c \in Callers |-> IdleCall]
  /\ loop = [LoopAt("wait") EXCEPT !.until = POLL]
  /\ lastCmd = IF state = PLAYING THEN "on" ELSE "off"
  /\ cast = [active |-> state = PLAYING, playing |-> state = PLAYING]
  /\ obs = [s1 |-> state, n1 |-> 1]
  /\ speakers = <<"d1", "d2">>
  /\ reach \in [{"d1", "d2"} -> {"ok", "down", "hang"}]
  /\ reach["d1"] = "ok"
  /\ reach["d2"] # "ok"
  /\ power \in [{"d1", "d2"} -> BOOLEAN]
  /\ sp \in [{"d1", "d2"} -> {NoSession, 1}]
  /\ authed \in [{"d1", "d2"} -> {{}, {1}}]
  /\ \A d \in {"d1", "d2"} : authed[d] \subseteq {sp[d]}
  /\ workers = << >>
  /\ budget = [sig |-> 0, main |-> 0, env |-> 0, horizon |-> MaxHealPolls * POLL, fine |-> 0]

\* The polls of run in a steady Playing or Inactive and their threads.
NextHeal ==
  \/ RunWaitTimeout
  \/ RunIsSet
  \/ RunRead1
  \/ RunRead2
  \/ StartThread
  \/ Tick
  \/ \E w \in Slots : WorkerStep(w)

SpecHeal == InitHeal /\ [][NextHeal]_vars

\* ---------------------------------------------------------------------------
\* The steps of run that do not wait for the clock.
LoopStep ==
  \/ RunWaitWoken
  \/ RunIsSet
  \/ RunClear
  \/ RunRead1
  \/ RunRead2
  \/ RunAgoNone
  \/ RunAgoNow
  \/ RunAgoSub
  \/ StartThread

\* ---------------------------------------------------------------------------
\* The state machine when the state has been Stopped for almost a day: the
\* last signal made it Stopped at second 0, run has polled every 10 seconds
\* since (each poll invoked switch_off()) and is in its wait; no speaker is
\* configured and no signal arrives.
InitLong ==
  /\ state = STOPPED
  /\ state_changed = 0
  /\ changedAt = 0
  /\ nchg = 1
  /\ stampOf = 1
  /\ event = FALSE
  /\ now \in (DAY - 2 * POLL)..(DAY - POLL - 1)
  /\ sig = [c \in Callers |-> IdleCall]
  /\ loop = [LoopAt("wait") EXCEPT !.until = now + POLL]
  /\ lastCmd = "off"
  /\ cast = [active |-> TRUE, playing |-> FALSE]
  /\ obs = [s1 |-> STOPPED, n1 |-> 1]
  /\ speakers = << >>
  /\ sp = << >>
  /\ authed = << >>
  /\ power = << >>
  /\ reach = << >>
  /\ workers = << >>
  /\ budget = [sig |-> 0, main |-> 0, env |-> 0, horizon |-> DAY + MaxLongPolls * POLL, fine |-> 0]

NextLong ==
  \/ RunWaitTimeout
  \/ RunIsSet
  \/ RunRead1
  \/ RunRead2
  \/ RunAgoNone
  \/ RunAgoNow
  \/ RunAgoSub
  \/ Tick

SpecLong == InitLong /\ [][NextLong]_vars

\* ===========================================================================
\* Properties of the playback state machine (checked under SpecMachine).

\* A step that ends an evaluation of run (a command, or none, then the wait).
EvalEnds == loop.pc # "wait" /\ loop'.pc = "wait"

\* The number of the state change the stored timestamp belongs to.
StampVer == stampOf

\* C1 (as claimed): an evaluation of run made less than 60 seconds after the
\* assignment that made the state Stopped, while the state is still Stopped,
\* does not invoke switch_off().
C1_DebounceLowerBound ==
  [][(EvalEnds /\ state = STOPPED /\ now < changedAt + TIMEOUT)
       => lastCmd' # "off"]_vars

\* The whole seconds between the change to Stopped and the poll, for a poll
\* of the grace-period branch made with no signal in progress since.
QuietStoppedPoll ==
  /\ loop.pc = "ago_sub"
  /\ loop'.pc = "wait"
  /\ state = STOPPED
  /\ NoCall
  /\ loop.ver = nchg
  /\ loop.t >= state_changed

\* C2 (as claimed): with no further signal, every poll made 60 whole seconds
\* or more after the change to Stopped invokes switch_off(); the poll at
\* exactly 60 seconds already does.
C2_OffAtSixty ==
  [][(QuietStoppedPoll /\ loop.t - state_changed >= TIMEOUT)
       => lastCmd' = "off"]_vars

\* C2 (amended): with no further signal, a poll after the change to Stopped
\* invokes switch_off() exactly when more than 60 whole seconds have elapsed
\* (61 or more); the poll at exactly 60 seconds invokes nothing.
C2_OffAfterSixty ==
  [][QuietStoppedPoll
       => /\ loop.t - state_changed > TIMEOUT => lastCmd' = "off"
          /\ loop.t - state_changed <= TIMEOUT => lastCmd' = "skip"]_vars

\* C2 witness: switch_off() has just been invoked by the first poll past the
\* grace period, 61 to 70 seconds after the change to Stopped.
C2_Witness ==
  /\ state = STOPPED
  /\ NoCall
  /\ loop.pc = "wait"
  /\ loop.until = now + POLL
  /\ lastCmd = "off"
  /\ state_changed = changedAt
  /\ now - state_changed > TIMEOUT
  /\ now - state_changed <= TIMEOUT + POLL

\* C4 (as claimed): a call set_state(s) whose test finds the state equal to s
\* returns without touching the state, the timestamp or the event; the
\* timestamp is written only by a call that has assigned the state, and every
\* assignment of the state changes its value, so that the timestamp is
\* written only when the state value changes.
C4_IdempotentSignal ==
  [][/\ \A c \in Callers :
          (sig[c].pc = "test" /\ sig[c].arg = state /\ sig'[c] # sig[c])
            => (sig'[c].pc = "idle" /\ UNCHANGED <<state, state_changed, event>>)
     /\ stampOf' # stampOf
          => \E c \in Callers : sig[c].pc = "stamp" /\ sig'[c].pc = "wake"
     /\ nchg' # nchg
          => state' # state]_vars

\* C5: whenever run is blocked in the timed wait with the event cleared and
\* no set_state call is under way, and the state is Playing or Inactive, the
\* last evaluation has invoked the command of that state: the command never
\* has to wait for the poll timeout.
C5_ImmediateReaction ==
  (loop.pc = "wait" /\ ~event /\ NoCall)
    => /\ state = PLAYING => lastCmd = "on"
       /\ state = INACTIVE => lastCmd = "off"

\* C5 witness: Inactive was the first signal and switch_off() has been
\* invoked in the second of the signal, before the first poll timeout.
C5_Witness ==
  /\ state = INACTIVE
  /\ nchg = 1
  /\ NoCall
  /\ loop.pc = "wait"
  /\ ~event
  /\ lastCmd = "off"
  /\ now = changedAt
  /\ now < POLL

\* C10 (as claimed): the timestamp an evaluation of run reads belongs to the
\* same state change as the state value it read.
C10_AtomicSignalUpdate ==
  [][((loop.pc = "ago_sub" \/ (loop.pc = "ago_none" /\ state_changed = NoTime))
        /\ loop'.pc = "wait")
       => loop.ver = StampVer]_vars

\* ===========================================================================
\* Properties of the device handles and the group.

\* Thread w ends in this step because connect() raised.
ConnectFails(w) ==
  /\ workers[w].pc \in {"ctor", "auth", "auth_io"}
  /\ workers'[w].pc = "done"

\* C3 (as claimed): whenever connect() fails, the handle's stored session is
\* null afterwards.
C3_FailedConnectLeavesNoSession ==
  [][\A w \in Slots : ConnectFails(w) => sp'[workers[w].dev] = NoSession]_vars

\* Thread w ends in this step with its set_power() call sent.
WriteSent(w) ==
  /\ workers[w].pc = "io"
  /\ workers[w].op = "write"
  /\ workers'[w].pc = "done"

\* C7 (as claimed): no set_power write reaches a device whose power already
\* equals the desired state at the time of the write. Stated for the writes
\* the device obeys, in runs where only the program's own threads have
\* touched the device (no manual switching, no change of the network).
C7_NoRedundantWrite ==
  [][\A w \in Slots :
       (WriteSent(w) /\ workers'[w].out = "written" /\ budget.env = MaxEnv)
         => power[workers[w].dev] # workers[w].want]_vars

\* C7 (amended): a thread goes on to set_power only when the check_power()
\* of the same set_state call returned something other than the desired
\* state; a thread that read the desired state ends without a write.
C7_WriteOnlyAfterDifferentRead ==
  \A w \in Slots :
    workers[w].op = "write" => workers[w].got # {workers[w].want}

\* C7 witness: one thread has ended without a write because the device
\* reported the desired state, and another is about to write after reading
\* the other state.
C7_Witness ==
  \E v, w \in Slots :
    /\ workers[v].pc = "done"
    /\ workers[v].out = "noop"
    /\ workers[w].pc = "io"
    /\ workers[w].op = "write"
    /\ workers[w].got = {~workers[w].want}

\* C8: a check_power or set_power that fails with an I/O error is taken by
\* the handler of line 78, which leaves the stored session null and raises
\* SpeakerConnectError (logged by set_state); a thread that finds no session
\* calls connect(), and no thread touches the device without a session.
C8_IOFailureInvalidatesSession ==
  [][\A w \in Slots :
       LET d == workers[w].dev IN
       /\ (workers[w].pc = "io" /\ reach[d] = "down" /\ workers'[w] # workers[w])
            => workers'[w].pc = "except"
       /\ (workers[w].pc = "except" /\ workers'[w] # workers[w])
            => (sp'[d] = NoSession /\ workers'[w].pc = "done" /\ workers'[w].out = "io_err")
       /\ (workers[w].pc = "sp_test" /\ sp[d] = NoSession /\ workers'[w] # workers[w])
            => workers'[w].pc = "ctor"
       /\ workers'[w].pc = "io" => workers'[w].ref # NoSession]_vars

\* C8 witness: a thread has ended on an I/O error, the session is null, and
\* the next thread on the handle is in connect().
C8_Witness ==
  \E v, w \in Slots :
    /\ workers[v].pc = "done"
    /\ workers[v].out = "io_err"
    /\ workers[w].pc = "ctor"
    /\ sp[workers[w].dev] = NoSession

\* Every broadcast starts a thread for every configured speaker: an
\* evaluation that invokes switch_on() or switch_off() enters the for loop at
\* the first speaker with that command, every iteration starts the thread of
\* its speaker in a free slot and goes on to the next speaker, and the call
\* returns to the wait after the last one.
BroadcastReachesAll ==
  /\ (loop.pc # "start" /\ loop'.pc = "wait" /\ loop.pc # "wait")
       => (lastCmd' = "skip" \/ speakers = << >>)
  /\ (loop.pc # "start" /\ loop'.pc = "start")
       => /\ loop'.i = 1
          /\ lastCmd' \in {"on", "off"}
          /\ loop'.want = (lastCmd' = "on")
  /\ (loop.pc = "start" /\ loop' # loop)
       => /\ \E w \in 1..Len(workers') :
               /\ workers'[w] = NewWorker(speakers[loop.i], loop.want)
               /\ w \in Slots => Free(w)
          /\ IF loop.i < Len(speakers)
               THEN loop' = [loop EXCEPT !.i = @ + 1]
               ELSE loop'.pc = "wait"

\* C6: with d2 lost for good, every broadcast starts a thread for each
\* speaker; every thread started for d1 ends, whatever the thread of d2 does,
\* and ends with d1 in the commanded power state; a thread stays in a call
\* for ever only when its own device never answers.
C6_PerDeviceIsolation ==
  /\ [][BroadcastReachesAll]_vars
  /\ [][\A w \in Slots :
          (workers[w].dev = "d1" /\ workers[w].pc # "done" /\ workers'[w].pc = "done")
            => /\ workers'[w].out \in {"noop", "written"}
               /\ power'["d1"] = workers[w].want]_vars
  /\ [](\A w \in Slots : workers[w].pc = "stuck" => workers[w].dev = "d2")
  /\ []((\E w \in Slots : Active(w)) => <>(\A w \in Slots : Free(w)))
  /\ []((\E w \in Slots : Active(w) /\ workers[w].dev = "d1")
          => <>(\A w \in Slots : workers[w].dev = "d1" => workers[w].pc = "done"))

\* C6 witness: the thread of d2 is parked in a call that never returns and
\* the thread of d1, started by the same switch_off(), has switched d1 off.
C6_Witness ==
  \E v, w \in Slots :
    /\ workers[v].pc = "stuck"
    /\ workers[v].dev = "d2"
    /\ reach["d2"] = "hang"
    /\ workers[w].pc = "done"
    /\ workers[w].dev = "d1"
    /\ workers[w].out = "written"
    /\ lastCmd = "off"
    /\ power["d1"] = OFF

\* Exceptions that a failing device or connection produces.
DeviceErrors == {"SpeakerConnectError", "IOError", "OSError"}

\* C9: no thread ends with a device error leaving set_state (they are logged
\* there), a step of a device thread never touches the state machine or the
\* loop, and the loop's step after an evaluation is always the timed wait.
C9_ErrorContainment ==
  [][/\ \A w \in Slots :
          /\ workers'[w].pc = "done" => workers'[w].out \notin DeviceErrors
          /\ workers'[w] # workers[w] /\ Active(w) => UNCHANGED smvars
     /\ BroadcastReachesAll]_vars

\* C9 witness: the thread of one speaker has ended on a logged connect or
\* I/O error, the thread of the other has done its work, and the loop is
\* back in its wait.
C9_Witness ==
  \E v, w \in Slots :
    /\ workers[v].pc = "done"
    /\ workers[v].out \in {"conn_err", "io_err"}
    /\ workers[w].pc = "done"
    /\ workers[w].dev # workers[v].dev
    /\ workers[w].out \in {"noop", "written"}
    /\ loop.pc = "wait"

\* ===========================================================================
\* Further properties of the playback state machine.

\* C11: an evaluation of run that ends before any signal has changed the
\* state (the state is the initial 0 and the timestamp is None) invokes
\* switch_off(), never switch_on() and never nothing.
C11_PreInitPolicy ==
  [][(EvalEnds /\ nchg = 0 /\ state = 0 /\ state_changed = NoTime)
       => lastCmd' = "off"]_vars

\* C11 witness: two polls have passed without any change of state and the
\* second has invoked switch_off() too.
C11_Witness ==
  /\ nchg = 0
  /\ state = 0
  /\ state_changed = NoTime
  /\ now >= 2 * POLL
  /\ loop.pc = "wait"
  /\ loop.until = now + POLL
  /\ lastCmd = "off"

\* The signal the adapter has to derive from the receiver's status.
ReferenceSignal(a, p) ==
  CASE ~a -> INACTIVE
    [] a /\ p -> PLAYING
    [] a /\ ~p -> STOPPED

\* C12: a callback makes exactly one call of set_state, and its argument is
\* Inactive when the session is not active, else Playing when media is
\* playing, else Stopped.
C12_AdapterDerivation ==
  [][(sig["recv"].pc = "idle" /\ sig'["recv"].pc = "test")
       => /\ sig'["recv"].arg = ReferenceSignal(cast.active, cast.playing)
          /\ budget'.sig = budget.sig - 1]_vars

\* C12 witness: a callback delivered while the session is not active and the
\* media status still says playing has called set_state(INACTIVE).
C12_Witness ==
  /\ sig["recv"].pc = "test"
  /\ ~cast.active
  /\ cast.playing
  /\ sig["recv"].arg = INACTIVE

\* The power the state asks for while it is Playing or Inactive.
Wanted == state = PLAYING

\* Every poll of the scenario has been made and all its threads have ended.
PollsServed ==
  /\ now = budget.horizon
  /\ loop.pc = "wait"
  /\ loop.until > budget.horizon
  /\ \A w \in Slots : Free(w)

\* The handle of d is one from which the next set_state reaches the device:
\* it holds no session (the next call connects) or an authenticated one.
Usable(d) == sp[d] = NoSession \/ sp[d] \in authed[d]

\* C13 (as claimed): with the state steadily Playing (Inactive) and d1
\* reachable, once the polls have been made and their threads have ended,
\* d1 is on (off), whatever its power and its handle were before, or at
\* least its handle is one from which the next poll switches it.
C13_SelfHealing ==
  PollsServed => (power["d1"] = Wanted \/ Usable("d1"))

\* A thread is in a call that never returns.
SomeStuck == \E w \in Slots : workers[w].pc = "stuck"

\* C14: while a thread of an earlier broadcast is in a call that never
\* returns, run is never held up: out of the wait its next step can be
\* taken (inside set_power_state too), in the wait it returns as soon as the
\* event is set; and a broadcast starts its threads one after the other and
\* returns to the wait, without touching the threads in flight.
C14_LoopNeverStalled ==
  /\ []((SomeStuck /\ loop.pc # "wait") => ENABLED LoopStep)
  /\ []((SomeStuck /\ loop.pc = "wait" /\ event) => ENABLED RunWaitWoken)
  /\ [][/\ BroadcastReachesAll
        /\ (loop.pc = "start" /\ loop' # loop)
             => \A w \in Slots : Active(w) => workers'[w] = workers[w]]_vars

\* C14 witness: a thread of an earlier broadcast is in a call that never
\* returns, and run, woken by a second signal, has started the thread of a
\* later broadcast and is back in its wait.
C14_Witness ==
  /\ nchg = 2
  /\ loop.pc = "wait"
  /\ ~event
  /\ \E v, w \in Slots :
       /\ workers[v].pc = "stuck"
       /\ workers[w] = NewWorker("d1", lastCmd = "on")

\* C15 (as claimed): whatever the interleaving of the threads of overlapping
\* broadcasts on one handle, no thread calls check_power or set_power on
\* None: no thread is ended by the AttributeError of that call, and a thread
\* that ended did its work or logged a SpeakerConnectError.
C15_NoNullSessionUse ==
  \A w \in Slots :
    workers[w].pc = "done"
      => workers[w].out \in {"noop", "written", "sent", "conn_err", "io_err"}

\* C16 (as claimed): with no signal in progress, every evaluation of run made
\* while the state is Stopped and more than 60 seconds after the change to
\* Stopped invokes switch_off(), however long ago the change was.
C16_GraceExpiryPermanent ==
  [][(loop.pc = "ago_sub" /\ loop'.pc = "wait" /\ state = STOPPED /\ NoCall
        /\ state_changed = changedAt /\ loop.t - state_changed > TIMEOUT)
       => lastCmd' = "off"]_vars

\* C17: whenever run is blocked in the timed wait with the event cleared and
\* no set_state call is under way, the latest evaluation read the state after
\* its last change: what line 129 read is the current state.
C17_NoLostWakeup ==
  (loop.pc = "wait" /\ ~event /\ NoCall)
    => (obs.n1 = nchg /\ obs.s1 = state)

\* C17 witness: two signals have changed the state within the first poll
\* interval, and run, woken by the event, has evaluated the second state and
\* is blocked in its wait again.
C17_Witness ==
  /\ loop.pc = "wait"
  /\ ~event
  /\ NoCall
  /\ nchg = 2
  /\ obs.n1 = 2
  /\ obs.s1 = state
  /\ now < POLL

\* C18 (as claimed): run takes the grace-period branch (line 134) only if
\* _state was Stopped or the initial 0 at some moment of that evaluation; with
\* at most one change of state since line 129 read it, the values the state
\* held are the one read there and the current one.
C18_SingleSnapshot ==
  [][(loop.pc = "read2" /\ loop'.pc = "ago_none" /\ nchg <= obs.n1 + 1)
       => (obs.s1 \in {0, STOPPED} \/ state \in {0, STOPPED})]_vars

\* C19 (as claimed): a thread never switches a device off while the state is
\* Playing nor on while it is Inactive; checked at the writes made when no
\* signal is in progress and run has already served the current state (it is
\* in its wait, the event cleared), so that the broadcast of the current
\* state has been made before the write.
C19_WritesFollowState ==
  [][\A w \in Slots :
       (WriteSent(w) /\ workers'[w].out = "written"
          /\ NoCall /\ loop.pc = "wait" /\ ~event)
         => /\ state = PLAYING => workers[w].want = ON
            /\ state = INACTIVE => workers[w].want = OFF]_vars

====
